---- MODULE Spec2Model ----
(***************************************************************************)
(* Model of CI/Scripts/analyze-performance.py: the performance-gate        *)
(* artifact analyser.  One run of main() is a linear pipeline              *)
(*   validate directory -> mkdir output -> aggregate logs, CSV, JSON       *)
(*   -> Markdown report -> JSON/CSV dump -> console summary -> exit.       *)
(* The artifact tree (which files exist, in which enumeration order) is    *)
(* fixed when the run starts; the content of a file is observed when the   *)
(* file is read, and a file read twice shows the same content both times.  *)
(* The trees considered hold at most one performance-gates.log, one other  *)
(* log, one CSV report and one JSON report, in every enumeration order.    *)
(* Argument parsing is assumed to succeed and the output directory to be   *)
(* creatable and writable.                                                 *)
(***************************************************************************)
EXTENDS Integers, Sequences, FiniteSets, TLC

VARIABLES
    pc,               \* position of main()
    artifacts_exists, \* os.path.exists(args.artifacts_dir)
    tree_logs,        \* the tree's *.log paths, in enumeration order
    tree_csv,         \* the tree's *.csv paths, in enumeration order
    tree_json,        \* the tree's *.json paths, in enumeration order
    log_files,        \* analyze_artifacts_directory: log_files
    log_idx,          \* position of the `for log_file in log_files` loop
    csv_idx,          \* position of the `for csv_file in csv_files` loop
    json_idx,         \* position of the `for json_file in json_files` loop
    seen,             \* what the log files read so far, and still to be read again, showed
    content,          \* a direct call of parse_log_file: the file it is given
    results,          \* a direct call of parse_log_file: what it returns
    caught,           \* exception class in the last reader's "Error parsing" line, "none" if it printed none
    analysis,         \* the aggregate record
    out_dir_exists,   \* the output directory has been created
    summary_md,       \* performance-analysis-summary.md (<<>> while not written)
    full_json,        \* full-analysis.json (<<>> while not written)
    gate_csv,         \* gate-results.csv (<<>> while not written)
    written,          \* output files in the order they were written
    console_rate,     \* the console's "Success Rate" line (<<>> when not printed)
    exit_code,        \* process exit code, -1 while running
    occ_count,        \* history: per gate name, gate lines read so far
    last_verdict,     \* history: per gate name, verdict of the last gate line read
    files_with,       \* history: per gate name, file visits whose text names the gate
    passed_marker_read, \* history: a text read so far held the all-passed marker
    yielded_success   \* history: a parsed log returned overall_success = True

vars == << pc, artifacts_exists, tree_logs, tree_csv, tree_json, log_files,
           log_idx, csv_idx, json_idx, seen, content, results, caught,
           analysis, out_dir_exists,
           summary_md, full_json, gate_csv, written, console_rate, exit_code,
           occ_count, last_verdict, files_with, passed_marker_read,
           yielded_success >>

(***************************************************************************)
(* Bounds of the model.                                                    *)
(***************************************************************************)
MaxLines == 2
MaxRows == 1

(***************************************************************************)
(* The input alphabet: file names, gate names, markers, tokens.            *)
(***************************************************************************)
PERF_LOG_NAME == "performance-gates.log"
OTHER_LOG_NAME == "unity.log"
CSV_NAME == "metrics.csv"
JSON_NAME == "report.json"
GateNames == {"latency", "memory"}
Verdicts == {"PASS", "FAIL"}
PASSED_MARKER == "ALL PERFORMANCE GATES PASSED"
FAILED_MARKER == "PERFORMANCE GATES FAILED"
MetricTokens == {"42.5", "1.2.3"}
CsvCells == {"2.5", "x"}
JsonValues == {"{}", "[]", "{\"fps\": 60}"}

Range(s) == {s[i] : i \in 1..Len(s)}

\* The results one recursive glob can give over a tree that holds at most
\* `a` files named x and at most `b` files named y: every order of every such
\* collection of file names.  The i-th entry stands for the i-th path found.
RECURSIVE Listings(_, _, _, _)
Listings(x, a, y, b) ==
    {<<>>}
    \cup (IF a > 0 THEN {<<x>> \o t : t \in Listings(x, a - 1, y, b)} ELSE {})
    \cup (IF b > 0 THEN {<<y>> \o t : t \in Listings(x, a, y, b - 1)} ELSE {})

\* A path is <<position in the tree's enumeration, file name>>
Paths(names) == [i \in 1..Len(names) |-> <<i, names[i]>>]

\* Path.stem
Stem(p) ==
    CASE p[2] = CSV_NAME -> "metrics"
      [] p[2] = JSON_NAME -> "report"
      [] p[2] = PERF_LOG_NAME -> "performance-gates"
      [] OTHER -> "unity"

(***************************************************************************)
(* Python dict: insertion-ordered, assignment to a present key keeps the   *)
(* key's position.  A dict is a sequence of <<key, value>> pairs.          *)
(***************************************************************************)
DictKeys(d) == {d[i][1] : i \in 1..Len(d)}
DictIndex(d, k) == CHOOSE i \in 1..Len(d) : d[i][1] = k
DictGet(d, k) == d[DictIndex(d, k)][2]
DictSet(d, k, v) ==
    IF k \in DictKeys(d) THEN [d EXCEPT ![DictIndex(d, k)] = <<k, v>>]
    ELSE Append(d, <<k, v>>)

(***************************************************************************)
(* Exceptions.  A reader body either finishes or raises; its handler       *)
(* `except Exception` catches every class below, prints one "Error         *)
(* parsing" line and lets the function return what it had built so far.    *)
(* An exception no handler catches ends the process.                       *)
(***************************************************************************)
Exception == {"OSError", "ValueError", "TypeError", "csv.Error", "JSONDecodeError"}
\* variant: `except ValueError`
ValueErrorOnly == {"ValueError"}
LogHandler == Exception
CsvHandler == Exception
JsonHandler == Exception

Returned(value) == [value |-> value, caught |-> "none", escaped |-> "none"]
Raised(handler, exc, value) ==
    IF exc \in handler
    THEN [value |-> value, caught |-> exc, escaped |-> "none"]
    ELSE [value |-> value, caught |-> "none", escaped |-> exc]

\* float(token): <<TRUE, value in tenths>>, or <<FALSE, 0>> for ValueError
FloatOf(tok) ==
    CASE tok = "42.5" -> <<TRUE, 425>>
      [] tok = "2.5" -> <<TRUE, 25>>
      [] OTHER -> <<FALSE, 0>>

(***************************************************************************)
(* Log files.  A text is what the scans of parse_log_file can see: the     *)
(* marker lines in order of appearance, the lines matching the gate        *)
(* pattern in order, and the tokens matched by the metrics pattern.        *)
(***************************************************************************)
MarkerTexts ==
    {<<>>, <<PASSED_MARKER>>, <<FAILED_MARKER>>,
     <<PASSED_MARKER, FAILED_MARKER>>, <<FAILED_MARKER, PASSED_MARKER>>}
GateLine == [name : GateNames, verdict : Verdicts]
GateTexts == UNION {[1..n -> GateLine] : n \in 0..MaxLines}
MetricTexts == {<<>>} \cup {<<t>> : t \in MetricTokens}
LogTexts == [markers : MarkerTexts, gate_lines : GateTexts, metric_tokens : MetricTexts]
EmptyText == [markers |-> <<>>, gate_lines |-> <<>>, metric_tokens |-> <<>>]
\* readable = FALSE: open() or read() raises OSError
NoFile == [readable |-> FALSE, text |-> EmptyText]
LogFiles == {NoFile} \cup {[readable |-> TRUE, text |-> t] : t \in LogTexts}

\* results as initialised at the top of parse_log_file
DefaultLogResult == [gates |-> <<>>, overall_success |-> FALSE, has_metrics |-> FALSE]

\* the `for match in re.finditer(gate_pattern, content)` loop
RECURSIVE ScanGates(_, _)
ScanGates(lines, gates) ==
    IF lines = <<>> THEN gates
    ELSE ScanGates(Tail(lines),
                   DictSet(gates, Head(lines).name, Head(lines).verdict = "PASS"))

\* variant: two independent ifs, the failed marker checked second
OverallVerdictFailedOverwrites(markers) ==
    IF FAILED_MARKER \in Range(markers) THEN FALSE
    ELSE IF PASSED_MARKER \in Range(markers) THEN TRUE
    ELSE FALSE

\* the if/elif on the two markers
OverallVerdict(markers) ==
    IF PASSED_MARKER \in Range(markers) THEN TRUE
    ELSE IF FAILED_MARKER \in Range(markers) THEN FALSE
    ELSE FALSE

\* variant: the metrics are converted before anything is stored in results
parse_log_file_metrics_first(f) ==
    IF ~f.readable THEN Raised(LogHandler, "OSError", DefaultLogResult)
    ELSE IF \E i \in 1..Len(f.text.metric_tokens) : ~FloatOf(f.text.metric_tokens[i])[1]
         THEN Raised(LogHandler, "ValueError", DefaultLogResult)
         ELSE Returned([DefaultLogResult EXCEPT
                           !.overall_success = OverallVerdict(f.text.markers),
                           !.gates = ScanGates(f.text.gate_lines, <<>>),
                           !.has_metrics = TRUE])

parse_log_file(f) ==
    IF ~f.readable THEN Raised(LogHandler, "OSError", DefaultLogResult)
    ELSE LET scanned == [DefaultLogResult EXCEPT
                            !.overall_success = OverallVerdict(f.text.markers),
                            !.gates = ScanGates(f.text.gate_lines, <<>>)]
             bad == \E i \in 1..Len(f.text.metric_tokens) :
                        ~FloatOf(f.text.metric_tokens[i])[1]
         IN  IF bad THEN Raised(LogHandler, "ValueError", scanned)
             ELSE Returned([scanned EXCEPT !.has_metrics = TRUE])

(***************************************************************************)
(* CSV files: the data rows csv.DictReader yields (one column), and        *)
(* whether the reader raises csv.Error after them.                         *)
(***************************************************************************)
CsvRows == UNION {[1..n -> CsvCells] : n \in 0..MaxRows}
NoCsv == [readable |-> FALSE, rows |-> <<>>, malformed |-> FALSE]
CsvFiles == {NoCsv} \cup [readable : {TRUE}, rows : CsvRows, malformed : BOOLEAN]

\* the inner try/except: a cell that float() accepts becomes a number
ConvertCell(cell) ==
    LET fl == FloatOf(cell)
    IN  IF fl[1] THEN [numeric |-> TRUE, num |-> fl[2], str |-> ""]
        ELSE [numeric |-> FALSE, num |-> 0, str |-> cell]

parse_csv_report(f) ==
    IF ~f.readable THEN Raised(CsvHandler, "OSError", <<>>)
    ELSE LET data == [i \in 1..Len(f.rows) |-> ConvertCell(f.rows[i])]
         IN  IF f.malformed THEN Raised(CsvHandler, "csv.Error", data)
             ELSE Returned(data)

(***************************************************************************)
(* JSON files: the decoded value, or a decoding failure.                   *)
(***************************************************************************)
EMPTY_OBJECT == "{}"
NoJson == [valid |-> FALSE, value |-> EMPTY_OBJECT]
JsonFiles == {NoJson} \cup [valid : {TRUE}, value : JsonValues]

parse_json_report(f) ==
    IF ~f.valid THEN [Raised(JsonHandler, "JSONDecodeError", EMPTY_OBJECT)
                         EXCEPT !.value = EMPTY_OBJECT]
    ELSE Returned(f.value)

\* Python truth value of a decoded JSON value
Truthy(v) == v \notin {"{}", "[]"}

(***************************************************************************)
(* The aggregate.                                                          *)
(***************************************************************************)
InitialAnalysis ==
    [summary |-> [total_gates |-> 0, passed_gates |-> 0, failed_gates |-> 0,
                  overall_success |-> FALSE],
     gates |-> <<>>,
     performance_data |-> <<>>,
     reports |-> <<>>]

\* variant: a gate already in the aggregate keeps its first value
MergeGateKeepFirst(a, gate_name, gate_result) ==
    [a EXCEPT
        !.gates = IF gate_name \in DictKeys(@) THEN @ ELSE Append(@, <<gate_name, gate_result>>),
        !.summary.total_gates = @ + 1,
        !.summary.passed_gates = IF gate_result THEN @ + 1 ELSE @,
        !.summary.failed_gates = IF gate_result THEN @ ELSE @ + 1]

\* variant: the counters count a gate name only the first time it is met
MergeGateCountNew(a, gate_name, gate_result) ==
    IF gate_name \in DictKeys(a.gates)
    THEN [a EXCEPT !.gates = DictSet(@, gate_name, gate_result)]
    ELSE [a EXCEPT
            !.gates = DictSet(@, gate_name, gate_result),
            !.summary.total_gates = @ + 1,
            !.summary.passed_gates = IF gate_result THEN @ + 1 ELSE @,
            !.summary.failed_gates = IF gate_result THEN @ ELSE @ + 1]

\* variant: the counters follow the map; a gate met again is moved from one
\* counter to the other instead of being counted again
MergeGateRecount(a, gate_name, gate_result) ==
    IF gate_name \in DictKeys(a.gates)
    THEN LET old == DictGet(a.gates, gate_name)
         IN  [a EXCEPT
                !.gates = DictSet(@, gate_name, gate_result),
                !.summary.passed_gates =
                    IF old = gate_result THEN @ ELSE IF gate_result THEN @ + 1 ELSE @ - 1,
                !.summary.failed_gates =
                    IF old = gate_result THEN @ ELSE IF gate_result THEN @ - 1 ELSE @ + 1]
    ELSE [a EXCEPT
            !.gates = DictSet(@, gate_name, gate_result),
            !.summary.total_gates = @ + 1,
            !.summary.passed_gates = IF gate_result THEN @ + 1 ELSE @,
            !.summary.failed_gates = IF gate_result THEN @ ELSE @ + 1]

\* the body of `for gate_name, gate_result in log_results['gates'].items()`
MergeGate(a, gate_name, gate_result) ==
    [a EXCEPT
        !.gates = DictSet(a.gates, gate_name, gate_result),
        !.summary.total_gates = @ + 1,
        !.summary.passed_gates = IF gate_result THEN @ + 1 ELSE @,
        !.summary.failed_gates = IF gate_result THEN @ ELSE @ + 1]

RECURSIVE MergeGates(_, _)
MergeGates(a, items) ==
    IF items = <<>> THEN a
    ELSE MergeGates(MergeGate(a, Head(items)[1], Head(items)[2]), Tail(items))

\* variant: the flag is assigned from each log instead of only being raised
MergeOverallAssign(a, r) == [a EXCEPT !.summary.overall_success = r.overall_success]

\* the `if log_results['overall_success']` update
MergeOverall(a, r) ==
    IF r.overall_success THEN [a EXCEPT !.summary.overall_success = TRUE] ELSE a

FoldLog(a, r) == MergeOverall(MergeGates(a, r.gates), r)

\* the `if csv_data:` update
FoldCsv(a, path, data) ==
    IF data # <<>>
    THEN [a EXCEPT !.performance_data = DictSet(@, Stem(path), data)]
    ELSE a

\* the `if json_data:` update
FoldJson(a, path, data) ==
    IF Truthy(data)
    THEN [a EXCEPT !.reports = Append(@, [name |-> Stem(path), path |-> path, data |-> data])]
    ELSE a

\* variant: a path the first pattern found is not taken again from the second
DiscoverLogsOnce(tree) ==
    SelectSeq(tree, LAMBDA p : p[2] = PERF_LOG_NAME)
        \o SelectSeq(tree, LAMBDA p : p[2] # PERF_LOG_NAME)

\* log_files = glob('**/performance-gates.log') followed by glob('**/*.log')
DiscoverLogs(tree) ==
    SelectSeq(tree, LAMBDA p : p[2] = PERF_LOG_NAME) \o tree

(***************************************************************************)
(* History of the input, taken from the raw text of each file read.        *)
(***************************************************************************)
LinesOf(text, X) == {i \in 1..Len(text.gate_lines) : text.gate_lines[i].name = X}
LastLine(text, X) ==
    text.gate_lines[CHOOSE i \in LinesOf(text, X) : \A j \in LinesOf(text, X) : j <= i]

\* What one read of log file f shows: the extractor's outcome and the gate
\* lines of the text (per gate name: how many, and the verdict of the last).
Reading(f) ==
    [parsed |-> parse_log_file(f),
     lines |-> [X \in GateNames |->
                   IF f.readable THEN Cardinality(LinesOf(f.text, X)) ELSE 0],
     last |-> [X \in GateNames |->
                   IF f.readable /\ LinesOf(f.text, X) # {}
                   THEN LastLine(f.text, X).verdict ELSE "none"],
     passed_marker |-> (f.readable /\ PASSED_MARKER \in Range(f.text.markers))]
Readings == {Reading(f) : f \in LogFiles}

tree == << artifacts_exists, tree_logs, tree_csv, tree_json >>
outputs == << out_dir_exists, summary_md, full_json, gate_csv, written, console_rate >>
history == << occ_count, last_verdict, files_with, passed_marker_read, yielded_success >>

Defaults ==
    /\ log_files = <<>>
    /\ log_idx = 1
    /\ csv_idx = 1
    /\ json_idx = 1
    /\ seen = <<>>
    /\ results = DefaultLogResult
    /\ caught = "none"
    /\ analysis = InitialAnalysis
    /\ out_dir_exists = FALSE
    /\ summary_md = <<>>
    /\ full_json = <<>>
    /\ gate_csv = <<>>
    /\ written = <<>>
    /\ console_rate = <<>>
    /\ exit_code = -1
    /\ occ_count = [X \in GateNames |-> 0]
    /\ last_verdict = [X \in GateNames |-> "none"]
    /\ files_with = [X \in GateNames |-> 0]
    /\ passed_marker_read = FALSE
    /\ yielded_success = FALSE

\* A run of main: the artifacts directory is missing, or holds some tree
Init ==
    /\ pc = "start"
    /\ content = NoFile
    /\ artifacts_exists \in BOOLEAN
    /\ tree_logs \in (IF artifacts_exists
                      THEN {Paths(l) : l \in Listings(PERF_LOG_NAME, 1, OTHER_LOG_NAME, 1)}
                      ELSE {<<>>})
    /\ tree_csv \in (IF artifacts_exists
                     THEN {Paths(l) : l \in Listings(CSV_NAME, 1, CSV_NAME, 0)}
                     ELSE {<<>>})
    /\ tree_json \in (IF artifacts_exists
                      THEN {Paths(l) : l \in Listings(JSON_NAME, 1, JSON_NAME, 0)}
                      ELSE {<<>>})
    /\ Defaults

\* variant: the output directory is created before the directory check
MissingDirectoryAfterMkdir ==
    /\ pc = "start"
    /\ ~artifacts_exists
    /\ out_dir_exists' = TRUE
    /\ pc' = "exited"
    /\ exit_code' = 1
    /\ UNCHANGED << tree, summary_md, full_json, gate_csv, written, console_rate,
                    history, log_files, log_idx, csv_idx, json_idx,
                    seen, content, results, caught, analysis >>

\* main, lines 291-293: the artifacts directory does not exist
MissingDirectory ==
    /\ pc = "start"
    /\ ~artifacts_exists
    /\ pc' = "exited"
    /\ exit_code' = 1
    /\ UNCHANGED << tree, outputs, history, log_files, log_idx, csv_idx, json_idx,
                    seen, content, results, caught, analysis >>

\* main, lines 295-297, then analyze_artifacts_directory up to the log loop
StartAnalysis ==
    /\ pc = "start"
    /\ artifacts_exists
    /\ out_dir_exists' = TRUE
    /\ analysis' = InitialAnalysis
    /\ log_files' = DiscoverLogs(tree_logs)
    /\ log_idx' = 1
    /\ pc' = "analyze"
    /\ UNCHANGED << tree, summary_md, full_json, gate_csv, written, console_rate,
                    history, csv_idx, json_idx, seen, content, results,
                    caught, exit_code >>

\* what a reader's return or escape does to the run
ReaderOutcome(r) ==
    /\ caught' = r.caught
    /\ IF r.escaped # "none"
       THEN pc' = "crashed" /\ exit_code' = 1
       ELSE UNCHANGED << pc, exit_code >>

\* one iteration of the log loop, lines 115-130
FoldLogFile ==
    /\ pc = "analyze"
    /\ log_idx <= Len(log_files)
    /\ LET p == log_files[log_idx]
           later == {log_files[j] : j \in (log_idx + 1)..Len(log_files)}
       IN  \E rd \in (IF p \in DictKeys(seen) THEN {DictGet(seen, p)} ELSE Readings) :
             LET r == rd.parsed
             IN  /\ seen' = SelectSeq(DictSet(seen, p, rd), LAMBDA e : e[1] \in later)
                 /\ ReaderOutcome(r)
                 /\ IF r.escaped # "none"
                    THEN UNCHANGED << analysis, log_idx, yielded_success >>
                    ELSE /\ analysis' = FoldLog(analysis, r.value)
                         /\ log_idx' = log_idx + 1
                         /\ yielded_success' = (yielded_success \/ r.value.overall_success)
                 /\ occ_count' = [X \in GateNames |-> occ_count[X] + rd.lines[X]]
                 /\ last_verdict' = [X \in GateNames |->
                       IF rd.last[X] # "none" THEN rd.last[X] ELSE last_verdict[X]]
                 /\ files_with' = [X \in GateNames |->
                       IF rd.lines[X] > 0 THEN files_with[X] + 1 ELSE files_with[X]]
                 /\ passed_marker_read' = (passed_marker_read \/ rd.passed_marker)
    /\ UNCHANGED << tree, outputs, log_files, csv_idx, json_idx, content, results >>

\* one iteration of the CSV loop, lines 133-139
FoldCsvFile ==
    /\ pc = "analyze"
    /\ log_idx > Len(log_files)
    /\ csv_idx <= Len(tree_csv)
    /\ \E f \in CsvFiles :
         LET r == parse_csv_report(f)
         IN  /\ ReaderOutcome(r)
             /\ IF r.escaped # "none"
                THEN UNCHANGED << analysis, csv_idx >>
                ELSE /\ analysis' = FoldCsv(analysis, tree_csv[csv_idx], r.value)
                     /\ csv_idx' = csv_idx + 1
    /\ UNCHANGED << tree, outputs, history, log_files, log_idx, json_idx, seen,
                    content, results >>

\* one iteration of the JSON loop, lines 142-151
FoldJsonFile ==
    /\ pc = "analyze"
    /\ log_idx > Len(log_files)
    /\ csv_idx > Len(tree_csv)
    /\ json_idx <= Len(tree_json)
    /\ \E f \in JsonFiles :
         LET r == parse_json_report(f)
         IN  /\ ReaderOutcome(r)
             /\ IF r.escaped # "none"
                THEN UNCHANGED << analysis, json_idx >>
                ELSE /\ analysis' = FoldJson(analysis, tree_json[json_idx], r.value)
                     /\ json_idx' = json_idx + 1
    /\ UNCHANGED << tree, outputs, history, log_files, log_idx, csv_idx, seen,
                    content, results >>

AnalysisDone ==
    /\ pc = "analyze"
    /\ log_idx > Len(log_files)
    /\ csv_idx > Len(tree_csv)
    /\ json_idx > Len(tree_json)

(***************************************************************************)
(* Rendering.                                                              *)
(***************************************************************************)
SUMMARY_NAME == "performance-analysis-summary.md"
FULL_JSON_NAME == "full-analysis.json"
GATE_CSV_NAME == "gate-results.csv"

\* f"{(passed / total) * 100:.1f}%": the quotient rounded to the nearest tenth
\* (ties to even), for total > 0
Percent1f(passed, total) ==
    LET q == (1000 * passed) \div total
        rem == (1000 * passed) % total
        tenths == IF 2 * rem > total THEN q + 1
                  ELSE IF 2 * rem < total THEN q
                  ELSE IF q % 2 = 0 THEN q ELSE q + 1
    IN  ToString(tenths \div 10) \o "." \o ToString(tenths % 10) \o "%"

\* variant: the division is not guarded
RateGuardAlways(s) == TRUE

\* the `if analysis['summary']['total_gates'] > 0` in front of each division
RateGuard(s) == s.total_gates > 0
\* passed_gates / total_gates raises ZeroDivisionError when total_gates is 0
DivisionRaises(s) == RateGuard(s) /\ s.total_gates = 0
RateLine(s) ==
    IF RateGuard(s) /\ s.total_gates # 0
    THEN <<Percent1f(s.passed_gates, s.total_gates)>>
    ELSE <<>>

StatusText(b) == IF b THEN "PASS" ELSE "FAIL"

\* the numeric summary of one tabular report, lines 200-221
DataSection(entry) ==
    LET data == entry[2]
        values == SelectSeq(data, LAMBDA c : c.numeric)
    IN  [report_name |-> entry[1],
         has_table |-> (Len(data) > 0 /\ data[1].numeric),
         numeric_rows |-> IF Len(data) > 0 /\ data[1].numeric THEN Len(values) ELSE 0,
         data_points |-> Len(data)]

\* variant: the recommendations follow the overall-success flag
ActionRequiredFromOverall(s) == ~s.overall_success

\* the `if analysis['summary']['failed_gates'] > 0` of the recommendations
ActionRequired(s) == s.failed_gates > 0

\* variant: the status line follows the failure counter
OverallStatusFromCounter(s) == IF s.failed_gates = 0 THEN "PASSED" ELSE "FAILED"

\* status_text of the overall status line, lines 164-166
OverallStatus(s) == IF s.overall_success THEN "PASSED" ELSE "FAILED"

\* the document generate_summary_report writes
SummaryReport(a) ==
    [overall_status |-> OverallStatus(a.summary),
     total_gates |-> a.summary.total_gates,
     passed_gates |-> a.summary.passed_gates,
     failed_gates |-> a.summary.failed_gates,
     success_rate |-> RateLine(a.summary),
     gate_table |-> [i \in 1..Len(a.gates) |-> <<a.gates[i][1], StatusText(a.gates[i][2])>>],
     data_sections |-> [i \in 1..Len(a.performance_data) |->
                           DataSection(a.performance_data[i])],
     reports_index |-> [i \in 1..Len(a.reports) |-> <<a.reports[i].name, a.reports[i].path>>],
     action_required |-> ActionRequired(a.summary),
     failed_list |-> IF ActionRequired(a.summary)
                     THEN LET failed == SelectSeq(a.gates, LAMBDA e : ~e[2])
                          IN  [i \in 1..Len(failed) |-> failed[i][1]]
                     ELSE <<>>,
     next_steps |-> IF ActionRequired(a.summary) THEN 4 ELSE 3]

\* variant: the rows are written last key first
GateRowsReversed(a) ==
    [i \in 1..Len(a.gates) |->
        LET e == a.gates[Len(a.gates) + 1 - i]
        IN  <<e[1], StatusText(e[2]), e[2]>>]

\* the rows generate_detailed_analysis writes under the CSV header
GateRows(a) ==
    [i \in 1..Len(a.gates) |-> <<a.gates[i][1], StatusText(a.gates[i][2]), a.gates[i][2]>>]

\* variant: the exit code follows the overall-success flag
ExitCodeFromOverall(s) == IF s.overall_success THEN 0 ELSE 1

\* the `if analysis['summary']['failed_gates'] > 0` of main
ExitCode(s) == IF s.failed_gates > 0 THEN 1 ELSE 0

\* main line 308: generate_summary_report, lines 155-255
GenerateSummaryReport ==
    /\ AnalysisDone
    /\ written' = Append(written, SUMMARY_NAME)
    /\ IF DivisionRaises(analysis.summary)
       THEN /\ pc' = "crashed"
            /\ exit_code' = 1
            /\ UNCHANGED summary_md
       ELSE /\ pc' = "detail"
            /\ summary_md' = <<SummaryReport(analysis)>>
            /\ UNCHANGED exit_code
    /\ UNCHANGED << tree, history, log_files, log_idx, csv_idx, json_idx, seen,
                    content, results, caught, analysis, out_dir_exists, full_json,
                    gate_csv, console_rate >>

\* main line 309: generate_detailed_analysis, lines 257-280
GenerateDetailedAnalysis ==
    /\ pc = "detail"
    /\ out_dir_exists' = TRUE
    /\ full_json' = <<analysis>>
    /\ IF analysis.gates # <<>>
       THEN /\ gate_csv' = <<GateRows(analysis)>>
            /\ written' = written \o <<FULL_JSON_NAME, GATE_CSV_NAME>>
       ELSE /\ UNCHANGED gate_csv
            /\ written' = Append(written, FULL_JSON_NAME)
    /\ pc' = "console"
    /\ UNCHANGED << tree, history, log_files, log_idx, csv_idx, json_idx, seen,
                    content, results, caught, analysis, summary_md, console_rate,
                    exit_code >>

\* main lines 311-332: the console summary and the exit code
PrintSummaryAndExit ==
    /\ pc = "console"
    /\ console_rate' = RateLine(analysis.summary)
    /\ exit_code' = IF DivisionRaises(analysis.summary) THEN 1
                    ELSE ExitCode(analysis.summary)
    /\ pc' = IF DivisionRaises(analysis.summary) THEN "crashed" ELSE "exited"
    /\ UNCHANGED << tree, history, log_files, log_idx, csv_idx, json_idx, seen,
                    content, results, caught, analysis, out_dir_exists, summary_md,
                    full_json, gate_csv, written >>

Next ==
    \/ MissingDirectory
    \/ StartAnalysis
    \/ FoldLogFile
    \/ FoldCsvFile
    \/ FoldJsonFile
    \/ GenerateSummaryReport
    \/ GenerateDetailedAnalysis
    \/ PrintSummaryAndExit

Spec == Init /\ [][Next]_vars

(***************************************************************************)
(* parse_log_file called on its own, on any one log file.                  *)
(***************************************************************************)
InitParse ==
    /\ pc = "parse_call"
    /\ content \in LogFiles
    /\ artifacts_exists = TRUE
    /\ tree_logs = <<>>
    /\ tree_csv = <<>>
    /\ tree_json = <<>>
    /\ Defaults

ParseLogFile ==
    /\ pc = "parse_call"
    /\ LET r == parse_log_file(content)
       IN  /\ results' = r.value
           /\ caught' = r.caught
           /\ pc' = IF r.escaped # "none" THEN "parse_raised" ELSE "parse_return"
    /\ UNCHANGED << tree, outputs, history, log_files, log_idx, csv_idx, json_idx,
                    seen, content, analysis, exit_code >>

NextParse == ParseLogFile

SpecParse == InitParse /\ [][NextParse]_vars

(***************************************************************************)
(* Properties.                                                             *)
(***************************************************************************)
Summary == analysis.summary
Aggregated == pc \in {"detail", "console", "exited"} /\ artifacts_exists
Sum(f) == f["latency"] + f["memory"]
Stored(X) == X \in DictKeys(analysis.gates)

\* C1: a run exits with code 1 exactly when the artifacts directory is missing
\* or failed_gates > 0 after aggregation, and with code 0 otherwise (also when
\* no gate was found); overall_success plays no part.  No run ends otherwise.
C1_ExitCode ==
    /\ pc # "crashed"
    /\ (pc = "exited") <=> (exit_code # -1)
    /\ pc = "exited" =>
          exit_code = IF ~artifacts_exists \/ Summary.failed_gates > 0 THEN 1 ELSE 0

\* a run over gates that all passed, none of its logs declaring overall success
C1_Witness ==
    /\ pc = "exited"
    /\ exit_code = 0
    /\ Summary.total_gates > 0
    /\ ~Summary.overall_success

\* C2: with a missing artifacts directory the run exits 1 without creating the
\* output directory, running the aggregator or writing any of the three files.
C2_MissingDirectoryWritesNothing ==
    ~artifacts_exists =>
        /\ pc \in {"start", "exited"}
        /\ pc = "exited" => exit_code = 1
        /\ ~out_dir_exists
        /\ written = <<>>
        /\ summary_md = <<>> /\ full_json = <<>> /\ gate_csv = <<>>
        /\ log_files = <<>> /\ log_idx = 1 /\ csv_idx = 1 /\ json_idx = 1
        /\ analysis = InitialAnalysis

C2_Witness == ~artifacts_exists /\ pc = "exited" /\ exit_code = 1

BothMarkers(f) ==
    /\ f.readable
    /\ PASSED_MARKER \in Range(f.text.markers)
    /\ FAILED_MARKER \in Range(f.text.markers)

C4_LastOccurrenceWins ==
    \A X \in GateNames :
        /\ Stored(X) <=> last_verdict[X] # "none"
        /\ Stored(X) => DictGet(analysis.gates, X) = (last_verdict[X] = "PASS")

\* aggregation is over, "latency" was met twice in one text and in several
\* file visits, and the value stored for it is that of a FAIL line
C4_Witness ==
    /\ Aggregated
    /\ files_with["latency"] >= 2
    /\ occ_count["latency"] > files_with["latency"]
    /\ last_verdict["latency"] = "FAIL"
    /\ Summary.passed_gates > 0

\* C5 as stated: the N+M gate lines read for a name X add N+M to total_gates,
\* also when they all stand in one file.
C5_CountsEveryOccurrence ==
    Aggregated => Summary.total_gates = Sum(occ_count)

\* C5 as the code has it: a name X adds one to total_gates for each file
\* visit whose text names X, however many gate lines for X that text holds;
\* total_gates differs from the number of keys of gates exactly when some
\* name was met in more than one file visit.
C5_CountsOncePerFileVisit ==
    /\ Summary.total_gates = Sum(files_with)
    /\ (Summary.total_gates # Len(analysis.gates)) <=> (\E X \in GateNames : files_with[X] > 1)

\* one file visit, two gate lines for "latency" in its text
C5_Witness ==
    /\ Aggregated
    /\ occ_count["latency"] = 2
    /\ files_with["latency"] = 1
    /\ Summary.total_gates = 1

\* C6: summary.overall_success is true exactly when some parsed log returned
\* overall_success = true, and once true it is never set back to false.
C6_OverallSuccessIsAnyLog ==
    /\ [](Summary.overall_success = yielded_success)
    /\ [][Summary.overall_success => analysis'.summary.overall_success]_vars

\* the flag is up at the end although gates failed and a CSV and a JSON file
\* were read after the logs
C6_Witness ==
    /\ pc = "exited"
    /\ Summary.overall_success
    /\ Summary.failed_gates > 0
    /\ Len(log_files) = 3
    /\ Len(tree_csv) = 1
    /\ Len(tree_json) = 1

\* the tree's only log was read to the end on every visit; its text holds the
\* all-passed marker, one gate line "latency" PASS and one gate line "memory" FAIL
ScenarioLog ==
    /\ artifacts_exists
    /\ Len(tree_logs) = 1
    /\ log_idx > Len(log_files)
    /\ passed_marker_read
    /\ \A X \in GateNames : occ_count[X] = Len(log_files)
    /\ last_verdict["latency"] = "PASS"
    /\ last_verdict["memory"] = "FAIL"

\* C7: in that scenario the Markdown report is written with overall status
\* PASSED, gate-results.csv is written with exactly the rows latency PASS and
\* memory FAIL, and only after both does the run exit, with code 1.
C7_PassedStatusWithExitOne ==
    ScenarioLog =>
        /\ pc # "crashed"
        /\ pc \in {"detail", "console", "exited"} =>
              /\ Len(summary_md) = 1
              /\ summary_md[1].overall_status = "PASSED"
        /\ pc \in {"console", "exited"} =>
              /\ Len(gate_csv) = 1
              /\ Len(gate_csv[1]) = 2
              /\ Range(gate_csv[1]) =
                    {<<"latency", "PASS", TRUE>>, <<"memory", "FAIL", FALSE>>}
              /\ written = <<SUMMARY_NAME, FULL_JSON_NAME, GATE_CSV_NAME>>
        /\ pc = "exited" => exit_code = 1
        /\ pc # "exited" => exit_code = -1

C7_Witness ==
    /\ ScenarioLog
    /\ pc = "exited"
    /\ exit_code = 1
    /\ summary_md[1].overall_status = "PASSED"

\* C8: no reader failure ends the run: every reader returns to the aggregator,
\* every file found is visited, and both renderers run on the aggregate.
C8_ReadFailuresAreNotFatal ==
    /\ pc # "crashed"
    /\ Aggregated =>
          /\ log_idx = Len(log_files) + 1
          /\ csv_idx = Len(tree_csv) + 1
          /\ json_idx = Len(tree_json) + 1
    /\ (pc \in {"console", "exited"} /\ artifacts_exists) =>
          /\ Len(summary_md) = 1
          /\ Len(full_json) = 1
          /\ full_json[1] = analysis

\* performance-gates.log could not be opened on either visit, the log visited
\* between the two was folded, and the reports were written
C8_Witness ==
    /\ pc = "exited"
    /\ Len(log_files) = 3
    /\ log_files[2][2] = OTHER_LOG_NAME
    /\ Len(tree_csv) = 0
    /\ Len(tree_json) = 0
    /\ caught = "OSError"
    /\ Summary.total_gates > 0
    /\ Len(summary_md) = 1
    /\ Len(full_json) = 1

\* a step in which a reader printed "Error parsing" and returned
FailedRead ==
    /\ pc = "analyze"
    /\ caught' # "none"
    /\ log_idx' # log_idx \/ csv_idx' # csv_idx \/ json_idx' # json_idx

NamedNow(X) == files_with'[X] > files_with[X]

OneDecimal(tenths) == ToString(tenths \div 10) \o "." \o ToString(tenths % 10) \o "%"

\* a Success Rate line for the counters s: there exactly when total_gates > 0,
\* and then the tenth of a percent nearest to passed_gates / total_gates x 100
RateLineFor(line, s) ==
    /\ (Len(line) = 1) <=> (s.total_gates > 0)
    /\ Len(line) = 1 =>
          LET q == (1000 * s.passed_gates) \div s.total_gates
          IN  \E n \in {q, q + 1} :
                 /\ 2 * n * s.total_gates - 2000 * s.passed_gates <= s.total_gates
                 /\ 2000 * s.passed_gates - 2 * n * s.total_gates <= s.total_gates
                 /\ line[1] = OneDecimal(n)
    /\ (s.total_gates = 4 /\ s.passed_gates = 3) => line = <<"75.0%">>

\* C10: the report (and the console summary) has a Success Rate line exactly
\* when total_gates > 0, its value is passed_gates / total_gates x 100 with one
\* decimal, "75.0%" for 3 of 4, and no run divides by a zero total.
C10_SuccessRate ==
    /\ pc # "crashed"
    /\ Len(summary_md) = 1 => RateLineFor(summary_md[1].success_rate, Summary)
    /\ (pc = "exited" /\ artifacts_exists) => RateLineFor(console_rate, Summary)

C10_Witness ==
    /\ pc = "exited"
    /\ Summary.total_gates = 4
    /\ Summary.passed_gates = 3
    /\ summary_md[1].success_rate = <<"75.0%">>

\* C11: generate_detailed_analysis always writes full-analysis.json, and writes
\* gate-results.csv exactly when gates is non-empty; the file then has one data
\* row per key of gates (not per counted occurrence), in the order of the map,
\* with Status "PASS" exactly when the stored value is true and "FAIL"
\* otherwise, and Success the stored value.  Neither file exists before.
C11_GateResultsCsv ==
    /\ pc \in {"start", "analyze", "detail"} => (full_json = <<>> /\ gate_csv = <<>>)
    /\ (pc \in {"console", "exited"} /\ artifacts_exists) =>
          /\ full_json = <<analysis>>
          /\ FULL_JSON_NAME \in Range(written)
          /\ (Len(gate_csv) = 1) <=> (analysis.gates # <<>>)
          /\ (GATE_CSV_NAME \in Range(written)) <=> (analysis.gates # <<>>)
          /\ Len(gate_csv) = 1 =>
                LET rows == gate_csv[1]
                IN  /\ Len(rows) = Cardinality(DictKeys(analysis.gates))
                    /\ \A i \in 1..Len(rows) :
                          /\ rows[i][1] = analysis.gates[i][1]
                          /\ rows[i][2] \in {"PASS", "FAIL"}
                          /\ (rows[i][2] = "PASS") <=> (analysis.gates[i][2] = TRUE)
                          /\ rows[i][3] = analysis.gates[i][2]

\* two keys, "memory" entered first and stored false, counted more often than
\* there are keys
C11_Witness ==
    /\ pc = "exited"
    /\ Len(gate_csv) = 1
    /\ gate_csv[1] = << <<"memory", "FAIL", FALSE>>, <<"latency", "PASS", TRUE>> >>
    /\ Summary.total_gates > 2

Visits(p) == Cardinality({i \in 1..Len(log_files) : log_files[i] = p})
TrueGates == Cardinality({i \in 1..Len(analysis.gates) : analysis.gates[i][2]})
FalseGates == Cardinality({i \in 1..Len(analysis.gates) : ~analysis.gates[i][2]})
OnlyLogIs(name) == Len(tree_logs) = 1 /\ tree_logs[1][2] = name

\* a step that folds the second visit of a file: the file is in `seen`
SecondVisit ==
    /\ pc = "analyze"
    /\ log_idx <= Len(log_files)
    /\ log_files[log_idx] \in DictKeys(seen)
    /\ log_idx' = log_idx + 1

\* C12: a log named performance-gates.log is found by both patterns and folded
\* twice in a run, a log with any other name once.  Each gate of the twice
\* folded file adds 2 to total_gates and 2 to passed_gates or to failed_gates,
\* and is one key of gates: the second visit folds what the first one folded.
C12_PerformanceGatesLogFoldedTwice ==
    /\ [](pc # "start" =>
            \A i \in 1..Len(tree_logs) :
                Visits(tree_logs[i]) = IF tree_logs[i][2] = PERF_LOG_NAME THEN 2 ELSE 1)
    /\ [](Len(analysis.gates) = Cardinality(DictKeys(analysis.gates)))
    /\ []((Aggregated /\ OnlyLogIs(PERF_LOG_NAME)) =>
            /\ Summary.total_gates = 2 * Len(analysis.gates)
            /\ Summary.passed_gates = 2 * TrueGates
            /\ Summary.failed_gates = 2 * FalseGates)
    /\ []((Aggregated /\ OnlyLogIs(OTHER_LOG_NAME)) =>
            /\ Summary.total_gates = Len(analysis.gates)
            /\ Summary.passed_gates = TrueGates
            /\ Summary.failed_gates = FalseGates)
    /\ [][SecondVisit =>
            LET first == DictGet(seen, log_files[log_idx]).parsed.value
                passed == Cardinality({i \in 1..Len(first.gates) : first.gates[i][2]})
            IN  /\ analysis'.summary.total_gates = Summary.total_gates + Len(first.gates)
                /\ analysis'.summary.passed_gates = Summary.passed_gates + passed
                /\ analysis'.summary.failed_gates =
                      Summary.failed_gates + Len(first.gates) - passed
                /\ \A i \in 1..Len(first.gates) :
                      /\ first.gates[i][1] \in DictKeys(analysis'.gates)
                      /\ DictGet(analysis'.gates, first.gates[i][1]) = first.gates[i][2]
       ]_vars

\* the tree's only log is performance-gates.log; its two gates are counted
\* four times, the failed one twice
C12_Witness ==
    /\ pc = "exited"
    /\ OnlyLogIs(PERF_LOG_NAME)
    /\ Len(analysis.gates) = 2
    /\ Summary.total_gates = 4
    /\ Summary.failed_gates = 2

StoredFalse == {X \in DictKeys(analysis.gates) : ~DictGet(analysis.gates, X)}

\* C13: the recommendations render the remediation branch (Action Required,
\* the Failed Gates list, four next steps) exactly when failed_gates > 0, and
\* the list then names exactly the gates stored false, each once; otherwise
\* the all-clear branch with three next steps is rendered.  The counter picks
\* the branch, whatever overall_success and the values in gates are.
C13_RecommendationsFollowCounter ==
    Len(summary_md) = 1 =>
        LET md == summary_md[1]
        IN  /\ md.action_required <=> (Summary.failed_gates > 0)
            /\ md.next_steps = IF Summary.failed_gates > 0 THEN 4 ELSE 3
            /\ Summary.failed_gates > 0 =>
                  /\ Range(md.failed_list) = StoredFalse
                  /\ Len(md.failed_list) = Cardinality(StoredFalse)
            /\ Summary.failed_gates = 0 => md.failed_list = <<>>

\* the remediation branch is rendered although overall_success is true and no
\* gate is stored false
C13_Witness ==
    /\ Len(summary_md) = 1
    /\ summary_md[1].action_required
    /\ summary_md[1].next_steps = 4
    /\ summary_md[1].failed_list = <<>>
    /\ Summary.overall_success
    /\ analysis.gates # <<>>

\* C14: in every state of a run, total_gates = passed_gates + failed_gates,
\* the three counters are non-negative, total_gates is at least the number of
\* keys of gates, and no step lowers any of the three counters.
C14_CountersConsistent ==
    /\ [](/\ Summary.total_gates = Summary.passed_gates + Summary.failed_gates
          /\ Summary.total_gates >= 0
          /\ Summary.passed_gates >= 0
          /\ Summary.failed_gates >= 0
          /\ Summary.total_gates >= Cardinality(DictKeys(analysis.gates)))
    /\ [][/\ analysis'.summary.total_gates >= Summary.total_gates
           /\ analysis'.summary.passed_gates >= Summary.passed_gates
           /\ analysis'.summary.failed_gates >= Summary.failed_gates]_vars

\* aggregation is still going on, both counters have moved, and a name met in
\* two file visits puts total_gates above the number of keys
C14_Witness ==
    /\ pc = "analyze"
    /\ log_idx <= Len(log_files)
    /\ Summary.passed_gates > 0
    /\ Summary.failed_gates > 0
    /\ Summary.total_gates > Cardinality(DictKeys(analysis.gates))

FailRows == {i \in 1..Len(gate_csv[1]) : gate_csv[1][i][2] = "FAIL"}

\* C15 as stated: whenever failed_gates > 0 at the end of aggregation, at least
\* one gate is stored false.
C15_FailedCounterImpliesFailedGate ==
    (Aggregated /\ Summary.failed_gates > 0) => StoredFalse # {}

\* C15 as the code has it: failed_gates counts the file visits that returned a
\* gate as failed, so failed_gates > 0 says that some visit returned a failed
\* gate.  A gate is then stored false unless every name returned as failed was
\* returned as passed by a later visit; in that case the run still exits 1 and
\* renders the remediation branch, with an empty Failed Gates list and no FAIL
\* row in gate-results.csv.
C15_FailedCounterCountsFailedVisits ==
    /\ [][analysis'.summary.failed_gates =
            Summary.failed_gates
                + Cardinality({X \in GateNames : NamedNow(X) /\ last_verdict'[X] = "FAIL"})]_vars
    /\ []((Aggregated /\ Summary.failed_gates > 0 /\ StoredFalse = {}) =>
            \E X \in GateNames : files_with[X] >= 2 /\ last_verdict[X] = "PASS")
    /\ []((pc = "exited" /\ artifacts_exists /\ Summary.failed_gates > 0) =>
            /\ exit_code = 1
            /\ summary_md[1].action_required
            /\ (summary_md[1].failed_list = <<>>) <=> (StoredFalse = {})
            /\ Len(gate_csv) = 1
            /\ (FailRows = {}) <=> (StoredFalse = {}))

\* the run exits 1 with the remediation branch, an empty Failed Gates list and
\* no FAIL row
C15_Witness ==
    /\ pc = "exited"
    /\ exit_code = 1
    /\ Summary.failed_gates > 0
    /\ summary_md[1].action_required
    /\ summary_md[1].failed_list = <<>>
    /\ Len(gate_csv) = 1
    /\ FailRows = {}

\* C16: whenever failed_gates = 0 at the end of aggregation, every gate stored
\* in gates is true: the run exits 0 and renders the all-clear branch, and
\* neither the gate table of the report nor gate-results.csv has a FAIL row,
\* for every number and order of log files and every repetition of names.
C16_AllClearMeansNoFailRow ==
    /\ Summary.failed_gates = 0 => StoredFalse = {}
    /\ (pc = "exited" /\ artifacts_exists /\ Summary.failed_gates = 0) =>
          /\ exit_code = 0
          /\ ~summary_md[1].action_required
          /\ summary_md[1].next_steps = 3
          /\ \A i \in 1..Len(summary_md[1].gate_table) :
                summary_md[1].gate_table[i][2] = "PASS"
          /\ Len(gate_csv) = 1 => \A i \in 1..Len(gate_csv[1]) :
                gate_csv[1][i][2] = "PASS" /\ gate_csv[1][i][3] = TRUE

\* an all-clear run over three log visits in which a name was met in several
\* visits and several times in one text
C16_Witness ==
    /\ pc = "exited"
    /\ exit_code = 0
    /\ Len(log_files) = 3
    /\ files_with["memory"] = 3
    /\ occ_count["memory"] > 3
    /\ files_with["latency"] >= 1
    /\ Len(gate_csv) = 1
    /\ Len(gate_csv[1]) = 2

====
